---- MODULE Spec2Model ----
(***************************************************************************)
(* Order fulfillment, inventory ledger and order status of boxncase-wms.   *)
(*                                                                         *)
(* The database tables Order, OrderItem, Product, InventoryTransaction and *)
(* Shipment are the state.  Every server handler that writes one of them   *)
(* is an action, split at each point where the handler awaits a database   *)
(* statement or an external call while holding values it read earlier.     *)
(* A prisma.$transaction callback that only performs blind / relative      *)
(* writes commits as one step; one that reads and then writes (adjustStock)*)
(* is split at the read, as PostgreSQL's default READ COMMITTED isolation   *)
(* lets other transactions commit in between.                              *)
(*                                                                         *)
(* Beside them run the order webhook with its signature check, the         *)
(* ingestion of an order that has no row yet (webhook deliveries and sync  *)
(* runs, statement by statement), the stock check of the Fulfill handlers  *)
(* on arbitrary items and stock, and the rates route on arbitrary carrier  *)
(* results.                                                                *)
(***************************************************************************)
EXTENDS Integers, Sequences, FiniteSets, TLC

\* ------------------------------------------------------------------ bounds
\* number of Fulfill invocations (purchase route POST or fulfillOrder)
MaxReqs == 2
\* number of receiveStock / adjustStock invocations
MaxStockOps == 2
\* largest quantity typed into the receive / adjust forms
MaxQty == 2
\* longest x-shopify-hmac-sha256 header, in characters
MaxSigLen == 3
\* most line items of an order given to the stock check
MaxItems == 2
\* line items of the incoming order
MaxLineItems == 2
\* webhook deliveries and sync runs that carry the incoming order
MaxDeliveries == 2
\* most offers one carrier returns, and the highest price of an offer
MaxOffers == 2
MaxPrice == 2
\* concurrent callers of getAccessToken
MaxCallers == 3

\* ------------------------------------------------------------- the tables
Products == {"p1", "p2"}
Orders == {"o1", "o2"}
\* an order id that has no Order row
NoOrder == "no-such-order"
\* OrderItem.productId is nullable
NoProduct == "null"

OrderStatus == {"PENDING", "PROCESSING", "SHIPPED", "CANCELLED", "ON_HOLD"}
TransactionType == {"RECEIVED", "SHIPPED", "ADJUSTED", "RETURNED"}

Carriers == {"UPS", "FedEx"}
\* a carrier name the purchase route does not know
OtherCarrier == "DHL"

\* The HMAC digest of the delivered body under the configured secret, as a
\* string of characters, and the signature headers a request can carry:
\* none, or any string of up to MaxSigLen characters
SigChars == {"a", "b"}

Digest == << "a", "b" >>

SignatureHeaders ==
    {[present |-> FALSE, value |-> << >>]} \cup
    {[present |-> TRUE, value |-> v] :
        v \in UNION {[1..n -> SigChars] : n \in 0..MaxSigLen}}

\* the header Shopify computes
SignedHeader == [present |-> TRUE, value |-> Digest]

\* fulfillment_status values of a Shopify order payload
FulfillmentStatuses ==
    {"null", "unfulfilled", "partial", "partially_fulfilled", "fulfilled", "restocked"}

\* an upstream order: its fulfillment_status and whether it is cancelled
\* (cancelled_at set or financial_status voided)
ShopifyOrders == [fulfillment_status : FulfillmentStatuses, cancelled : BOOLEAN]

\* The OrderItem rows of each order: o1 has two line items of the same
\* product, o2 needs the same product as o1 and one more.
OrderItems(o) ==
    IF o = "o1"
    THEN << [productId |-> "p1", quantity |-> 1],
            [productId |-> "p1", quantity |-> 1] >>
    ELSE << [productId |-> "p1", quantity |-> 2],
            [productId |-> "p2", quantity |-> 1] >>

\* Stock on hand when the model starts, received through receiveStock.
InitStock == [p \in Products |-> IF p = "p1" THEN 2 ELSE 1]

InitLedger ==
    << [productId |-> "p1", quantity |-> 2, type |-> "RECEIVED", order |-> NoOrder],
       [productId |-> "p2", quantity |-> 1, type |-> "RECEIVED", order |-> NoOrder] >>

\* The order items and the stock a stock check can meet: up to MaxItems line
\* items, each with or without a product, and any stock up to MaxQty
ItemLists ==
    UNION {[1..n -> [productId : Products \cup {NoProduct}, quantity : 1..MaxQty]] :
              n \in 1..MaxItems}

Stocks == [Products -> 0..MaxQty]

\* What a carrier's getRates can hand to the rates route.  getRates catches
\* its own errors: it resolves to its offers, sorted by price, or to no offers
\* and an error; the route also provides for a rejected call.
Prices == 1..MaxPrice

SortedOffers ==
    { s \in UNION {[1..n -> Prices] : n \in 0..MaxOffers} :
        \A i \in DOMAIN s, j \in DOMAIN s : i < j => s[i] <= s[j] }

CarrierResults ==
    {[settled |-> "rejected", rates |-> << >>, error |-> TRUE]} \cup
    {[settled |-> "fulfilled", rates |-> << >>, error |-> TRUE]} \cup
    {[settled |-> "fulfilled", rates |-> s, error |-> FALSE] : s \in SortedOffers}

\* Promise.resolve({ rates: [], error: '... not configured' })
NotConfiguredResult == [settled |-> "fulfilled", rates |-> << >>, error |-> TRUE]

\* the result of a carrier, configured or not
ResultsOf(isConfigured) ==
    IF isConfigured THEN CarrierResults ELSE {NotConfiguredResult}

NoRate == [orderFound |-> FALSE, configured |-> [c \in Carriers |-> FALSE],
           result |-> [c \in Carriers |-> NotConfiguredResult],
           pending |-> {},
           pc |-> "idle",
           resp |-> [status |-> "none", rates |-> << >>, errors |-> << >>,
                     mock |-> FALSE]]

\* a getRates promise that has not settled
PendingResult == [settled |-> "pending", rates |-> << >>, error |-> FALSE]

\* The callers of getAccessToken, and the token cache before any exchange
Callers == 1..MaxCallers

IdleCaller == [pc |-> "idle", carrier |-> "UPS"]

NoToken == [cachedToken |-> [c \in Carriers |-> "null"],
            caller |-> [k \in Callers |-> IdleCaller]]

\* An order of the upstream platform that has no row yet: its line items, and
\* the webhook deliveries and sync runs that carry it
LineItems == 1..MaxLineItems

Deliveries == 1..MaxDeliveries

IdleDelivery == [kind |-> "none", pc |-> "idle", existing |-> FALSE, i |-> 1,
                 found |-> FALSE]

\* Fulfill invocations, numbered in the order in which they arrive
Reqs == 1..MaxReqs

VARIABLES
    status,       \* Order.status of every order
    stock,        \* Product.currentStock of every product
    ledger,       \* InventoryTransaction rows, in creation order
    shipments,    \* Shipment rows, in creation order
    req,          \* the Fulfill invocations and how far each has run
    cancelling,   \* orders for which cancelOrder has passed its status check
    adj,          \* the adjustStock transaction that has read the stock
    nStockOps,    \* receiveStock / adjustStock invocations so far
    wasTerminal,  \* history: orders whose status has been SHIPPED or CANCELLED
    reply,        \* what cancelOrder or the webhook POST answered in the last step
    hook,         \* the webhook request answered in the last step
    check,        \* a stock check on its own: the items, the stock, the issues found
    extOrder,     \* Order rows that carry the shopifyOrderId of the incoming order
    extItems,     \* OrderItem rows per shopifyLineItemId of the incoming order
    ing,          \* the deliveries of the incoming order and how far each has run
    rate,         \* a rates request: what the carriers returned, and the response
    token         \* the cached OAuth token of each carrier and the callers of
                  \* getAccessToken

vars == << status, stock, ledger, shipments, req, cancelling, adj,
           nStockOps, wasTerminal, reply, hook, check, extOrder, extItems, ing,
           rate, token >>

\* the variables of the handlers that run beside the orders and the inventory
extVars == << check, extOrder, extItems, ing, rate, token >>

\* the tables and invocations of orders and inventory
coreVars == << status, stock, ledger, shipments, req, cancelling, adj,
               nStockOps, wasTerminal >>

NoReply == "none"

NoCheck == [items |-> << >>, stock |-> << >>, pc |-> "idle", details |-> << >>]

NoHook == [asked |-> FALSE, header |-> [present |-> FALSE, value |-> << >>],
           secretSet |-> FALSE]

\* a step of a handler other than cancelOrder and the webhook POST
OtherHandler == reply' = NoReply /\ hook' = NoHook /\ UNCHANGED extVars

NoAdj == [productId |-> NoProduct, newStock |-> 0, currentStock |-> 0]

IdleReq == [pc |-> "idle", orderId |-> NoOrder, trackingNumber |-> "none",
            resp |-> "none", shopifyFulfillment |-> "none"]

\* ---------------------------------------------------------------- helpers
RECURSIVE SumQty(_)
SumQty(s) == IF s = << >> THEN 0 ELSE Head(s).quantity + SumQty(Tail(s))

\* invocation r is the next one to arrive
Arrives(r) ==
    /\ req[r].pc = "idle"
    /\ IF r = 1 THEN TRUE ELSE req[r - 1].pc # "idle"

IsLinked(item) == item.productId # NoProduct

LinkedItems(o) == SelectSeq(OrderItems(o), IsLinked)

\* stockIssues with the loop left at the first issue found
RECURSIVE stockIssues_FirstOnly(_, _, _)
stockIssues_FirstOnly(items, stk, i) ==
    IF i > Len(items) THEN << >>
    ELSE LET item == items[i] IN
         IF ~IsLinked(item)
         THEN << [item |-> i, issue |-> "Product not in system",
                  need |-> item.quantity, have |-> 0] >>
         ELSE IF stk[item.productId] < item.quantity
         THEN << [item |-> i, issue |-> "Need",
                  need |-> item.quantity, have |-> stk[item.productId]] >>
         ELSE stockIssues_FirstOnly(items, stk, i + 1)

\* The loop that fills stockIssues in the purchase route and in fulfillOrder,
\* from item i on: an item without product is pushed and the loop continues;
\* an item whose product has less stock than the item's quantity is pushed.
RECURSIVE stockIssues(_, _, _)
stockIssues(items, stk, i) ==
    IF i > Len(items) THEN << >>
    ELSE LET item == items[i] IN
         ( IF ~IsLinked(item)
           THEN << [item |-> i, issue |-> "Product not in system",
                    need |-> item.quantity, have |-> 0] >>
           ELSE IF stk[item.productId] < item.quantity
           THEN << [item |-> i, issue |-> "Need",
                    need |-> item.quantity, have |-> stk[item.productId]] >>
           ELSE << >> )
         \o stockIssues(items, stk, i + 1)

\* the items of order o that stockIssues names, given the stock
StockIssues(o, stk) ==
    { stockIssues(OrderItems(o), stk, 1)[k].item :
        k \in DOMAIN stockIssues(OrderItems(o), stk, 1) }

\* DecrementStock with a slip: every linked item takes one unit, whatever its
\* quantity
DecrementStock_ByOne(stk, items) ==
    [p \in DOMAIN stk |->
        stk[p] - Cardinality({i \in DOMAIN items : items[i].productId = p})]

\* tx.product.update({ currentStock: { decrement: item.quantity } }) for
\* every linked item, one after the other
RECURSIVE DecrementStock(_, _)
DecrementStock(stk, items) ==
    IF items = << >> THEN stk
    ELSE LET item == Head(items) IN
         DecrementStock(
            IF IsLinked(item)
            THEN [stk EXCEPT ![item.productId] = @ - item.quantity]
            ELSE stk,
            Tail(items))

\* ShippedEntries with the sign lost: the entries carry the quantity itself
ShippedEntries_Unsigned(o) ==
    [ i \in 1..Len(LinkedItems(o)) |->
        [productId |-> LinkedItems(o)[i].productId,
         quantity  |-> LinkedItems(o)[i].quantity,
         type      |-> "SHIPPED",
         order     |-> o] ]

\* tx.inventoryTransaction.create for every linked item
ShippedEntries(o) ==
    [ i \in 1..Len(LinkedItems(o)) |->
        [productId |-> LinkedItems(o)[i].productId,
         quantity  |-> 0 - LinkedItems(o)[i].quantity,
         type      |-> "SHIPPED",
         order     |-> o] ]

\* Map Shopify fulfillment status to OrderStatus (webhook route)
mapFulfillmentStatus(fulfillmentStatus, cancelled) ==
    IF cancelled THEN "CANCELLED"
    ELSE CASE fulfillmentStatus \in {"null", "unfulfilled"} -> "PENDING"
           [] fulfillmentStatus \in {"partial", "partially_fulfilled"} -> "PROCESSING"
           [] fulfillmentStatus = "fulfilled" -> "SHIPPED"
           [] OTHER -> "PENDING"

\* Map Shopify fulfillment status to OrderStatus (order sync route)
syncMapFulfillmentStatus(fulfillmentStatus) ==
    CASE fulfillmentStatus \in {"null", "unfulfilled"} -> "PENDING"
      [] fulfillmentStatus \in {"partial", "partially_fulfilled"} -> "PROCESSING"
      [] fulfillmentStatus = "fulfilled" -> "SHIPPED"
      [] OTHER -> "PENDING"

\* the status processOrderWebhook computes from the payload
WebhookStatus(order) == mapFulfillmentStatus(order.fulfillment_status, order.cancelled)

\* the status the order sync computes from a fetched order
SyncStatus(order) ==
    IF order.cancelled THEN "CANCELLED"
    ELSE syncMapFulfillmentStatus(order.fulfillment_status)

\* prisma.order.update({ data: { status } }) together with the history
WriteStatus(o, s) ==
    /\ status' = [status EXCEPT ![o] = s]
    /\ wasTerminal' = IF s \in {"SHIPPED", "CANCELLED"}
                      THEN wasTerminal \cup {o} ELSE wasTerminal

Init ==
    /\ status = [o \in Orders |-> "PENDING"]
    /\ stock = InitStock
    /\ ledger = InitLedger
    /\ shipments = << >>
    /\ req = [r \in Reqs |-> IdleReq]
    /\ cancelling = {}
    /\ adj = NoAdj
    /\ nStockOps = 0
    /\ wasTerminal = {}
    /\ reply = NoReply
    /\ hook = NoHook
    /\ check = NoCheck
    /\ extOrder = 0
    /\ extItems = [l \in LineItems |-> 0]
    /\ ing = [d \in Deliveries |-> IdleDelivery]
    /\ token = NoToken
    /\ rate = NoRate


\* -------------------------------------------------- Fulfill: preconditions
\* The checks both Fulfill handlers run on the order they have just read.
CheckOrder(oid) ==
    IF oid \notin Orders THEN "NotFound"
    ELSE IF status[oid] = "SHIPPED" THEN "AlreadyShipped"
    ELSE IF status[oid] = "CANCELLED" THEN "Cancelled"
    ELSE IF StockIssues(oid, stock) # {} THEN "StockIssues"
    ELSE "ok"

\* PurchaseRead with the label bought before the checks have been evaluated
PurchaseRead_LabelFirst(r, oid) ==
    /\ Arrives(r)
    /\ req' = [req EXCEPT ![r] =
                 IF CheckOrder(oid) = "ok"
                 THEN [@ EXCEPT !.pc = "checked", !.orderId = oid]
                 ELSE [@ EXCEPT !.pc = "done", !.orderId = oid,
                                !.trackingNumber = "LIVE",
                                !.resp = CheckOrder(oid)]]
    /\ UNCHANGED << status, stock, ledger, shipments, cancelling, adj,
                    nStockOps, wasTerminal >>
    /\ OtherHandler

\* POST /api/shipping/purchase: findUnique and the checks up to the carrier call
PurchaseRead(r, oid) ==
    /\ Arrives(r)
    /\ req' = [req EXCEPT ![r] =
                 IF CheckOrder(oid) = "ok"
                 THEN [@ EXCEPT !.pc = "checked", !.orderId = oid]
                 ELSE [@ EXCEPT !.pc = "done", !.orderId = oid,
                                !.resp = CheckOrder(oid)]]
    /\ UNCHANGED << status, stock, ledger, shipments, cancelling, adj,
                    nStockOps, wasTerminal >>
    /\ OtherHandler

\* PurchaseLabel without the return after a failed createShipment: the error
\* is noted and the handler goes on to the transaction
PurchaseLabel_NoReturn(r, carrier, isConfigured, carrierOk) ==
    /\ req[r].pc = "checked"
    /\ req' = [req EXCEPT ![r] =
                 IF carrier \notin Carriers
                 THEN [@ EXCEPT !.pc = "done", !.resp = "InvalidCarrier"]
                 ELSE IF ~isConfigured
                 THEN [@ EXCEPT !.pc = "purchased",
                                !.trackingNumber = "MOCK"]
                 ELSE IF carrierOk
                 THEN [@ EXCEPT !.pc = "purchased",
                                !.trackingNumber = "LIVE"]
                 ELSE [@ EXCEPT !.pc = "purchased", !.resp = "CarrierError"]]
    /\ UNCHANGED << status, stock, ledger, shipments, cancelling, adj,
                    nStockOps, wasTerminal >>
    /\ OtherHandler

\* PurchaseLabel with a retry: after a failed createShipment the handler
\* notes the error and calls the carrier again
PurchaseLabel_Retries(r, carrier, isConfigured, carrierOk) ==
    /\ req[r].pc = "checked"
    /\ req' = [req EXCEPT ![r] =
                 IF carrier \notin Carriers
                 THEN [@ EXCEPT !.pc = "done", !.resp = "InvalidCarrier"]
                 ELSE IF ~isConfigured
                 THEN [@ EXCEPT !.pc = "purchased",
                                !.trackingNumber = "MOCK"]
                 ELSE IF carrierOk
                 THEN [@ EXCEPT !.pc = "purchased",
                                !.trackingNumber = "LIVE"]
                 ELSE [@ EXCEPT !.resp = "CarrierError"]]
    /\ UNCHANGED << status, stock, ledger, shipments, cancelling, adj,
                    nStockOps, wasTerminal >>
    /\ OtherHandler

\* POST /api/shipping/purchase: the carrier branch.  An unconfigured carrier
\* yields generateMockShipment; a configured one calls createShipment, which
\* returns a shipment or an error.
PurchaseLabel(r, carrier, isConfigured, carrierOk) ==
    /\ req[r].pc = "checked"
    /\ req' = [req EXCEPT ![r] =
                 IF carrier \notin Carriers
                 THEN [@ EXCEPT !.pc = "done", !.resp = "InvalidCarrier"]
                 ELSE IF ~isConfigured
                 THEN [@ EXCEPT !.pc = "purchased",
                                !.trackingNumber = "MOCK"]
                 ELSE IF carrierOk
                 THEN [@ EXCEPT !.pc = "purchased",
                                !.trackingNumber = "LIVE"]
                 ELSE [@ EXCEPT !.pc = "done", !.resp = "CarrierError"]]
    /\ UNCHANGED << status, stock, ledger, shipments, cancelling, adj,
                    nStockOps, wasTerminal >>
    /\ OtherHandler

\* POST /api/shipping/purchase: prisma.$transaction commits
PurchaseTx(r) ==
    /\ req[r].pc = "purchased"
    /\ LET o == req[r].orderId IN
       /\ shipments' = Append(shipments,
              [orderId |-> o, trackingNumber |-> req[r].trackingNumber])
       /\ stock' = DecrementStock(stock, OrderItems(o))
       /\ ledger' = ledger \o ShippedEntries(o)
       /\ WriteStatus(o, "SHIPPED")
    /\ req' = [req EXCEPT ![r].pc = "committed"]
    /\ UNCHANGED << cancelling, adj, nStockOps >>
    /\ OtherHandler

\* PurchaseTxFail without a transaction around the writes: the Shipment row
\* created before the failing statement stays
PurchaseTxFail_NoRollback(r) ==
    /\ req[r].pc = "purchased"
    /\ shipments' = Append(shipments,
           [orderId |-> req[r].orderId, trackingNumber |-> req[r].trackingNumber])
    /\ req' = [req EXCEPT ![r].pc = "done", ![r].resp = "Error500"]
    /\ UNCHANGED << status, stock, ledger, cancelling, adj, nStockOps, wasTerminal >>
    /\ OtherHandler

\* POST /api/shipping/purchase: the transaction throws (database error), all
\* of its writes roll back and the catch block answers 500
PurchaseTxFail(r) ==
    /\ req[r].pc = "purchased"
    /\ req' = [req EXCEPT ![r].pc = "done", ![r].resp = "Error500"]
    /\ UNCHANGED << status, stock, ledger, shipments, cancelling, adj,
                    nStockOps, wasTerminal >>
    /\ OtherHandler

\* PurchaseNotify without the inner try/catch: a failing createFulfillment
\* reaches the outer catch and the handler answers 500
PurchaseNotify_Fails(r, notifyOk) ==
    /\ req[r].pc = "committed"
    /\ req' = [req EXCEPT ![r].pc = "done",
                          ![r].resp = IF notifyOk THEN "Success" ELSE "Error500",
                          ![r].shopifyFulfillment = IF notifyOk THEN "created" ELSE "null"]
    /\ UNCHANGED << status, stock, ledger, shipments, cancelling, adj,
                    nStockOps, wasTerminal >>
    /\ OtherHandler

\* POST /api/shipping/purchase: createFulfillment in its own try/catch, then
\* the success response
PurchaseNotify(r, notifyOk) ==
    /\ req[r].pc = "committed"
    /\ req' = [req EXCEPT ![r].pc = "done", ![r].resp = "Success",
                          ![r].shopifyFulfillment = IF notifyOk THEN "created" ELSE "null"]
    /\ UNCHANGED << status, stock, ledger, shipments, cancelling, adj,
                    nStockOps, wasTerminal >>
    /\ OtherHandler

\* fulfillOrder server action: findUnique and the checks; the label comes
\* from the caller
FulfillOrderRead(r, oid) ==
    /\ Arrives(r)
    /\ req' = [req EXCEPT ![r] =
                 IF CheckOrder(oid) = "ok"
                 THEN [@ EXCEPT !.pc = "ready", !.orderId = oid,
                                !.trackingNumber = "INPUT"]
                 ELSE [@ EXCEPT !.pc = "done", !.orderId = oid,
                                !.resp = CheckOrder(oid)]]
    /\ UNCHANGED << status, stock, ledger, shipments, cancelling, adj,
                    nStockOps, wasTerminal >>
    /\ OtherHandler

\* fulfillOrder server action: prisma.$transaction commits and the action
\* returns success
FulfillOrderTx(r) ==
    /\ req[r].pc = "ready"
    /\ LET o == req[r].orderId IN
       /\ shipments' = Append(shipments,
              [orderId |-> o, trackingNumber |-> req[r].trackingNumber])
       /\ stock' = DecrementStock(stock, OrderItems(o))
       /\ ledger' = ledger \o ShippedEntries(o)
       /\ WriteStatus(o, "SHIPPED")
    /\ req' = [req EXCEPT ![r].pc = "done", ![r].resp = "Success"]
    /\ UNCHANGED << cancelling, adj, nStockOps >>
    /\ OtherHandler

\* FulfillOrderTxFail with the status written outside the transaction: the
\* order stays SHIPPED although everything else rolled back
FulfillOrderTxFail_StatusStays(r) ==
    /\ req[r].pc = "ready"
    /\ req' = [req EXCEPT ![r].pc = "done", ![r].resp = "Thrown"]
    /\ WriteStatus(req[r].orderId, "SHIPPED")
    /\ UNCHANGED << stock, ledger, shipments, cancelling, adj, nStockOps >>
    /\ OtherHandler

\* fulfillOrder server action: the transaction throws and rolls back; the
\* action has no catch, the caller sees the exception
FulfillOrderTxFail(r) ==
    /\ req[r].pc = "ready"
    /\ req' = [req EXCEPT ![r].pc = "done", ![r].resp = "Thrown"]
    /\ UNCHANGED << status, stock, ledger, shipments, cancelling, adj,
                    nStockOps, wasTerminal >>
    /\ OtherHandler

\* The stock check of the two Fulfill handlers on its own, for an order with
\* the items and the stock held in check: it passes, or the handler refuses
\* with the issues as details
CheckStock ==
    /\ check.pc = "asked"
    /\ LET details == stockIssues(check.items, check.stock, 1) IN
       check' = [check EXCEPT !.pc = IF details = << >> THEN "passed" ELSE "refused",
                              !.details = details]
    /\ reply' = NoReply /\ hook' = NoHook
    /\ UNCHANGED coreVars
    /\ UNCHANGED << extOrder, extItems, ing, rate, token >>

\* ------------------------------------------------ manual status operations
updateOrderStatus(o, s) ==
    /\ WriteStatus(o, s)
    /\ UNCHANGED << stock, ledger, shipments, req, cancelling, adj, nStockOps >>
    /\ OtherHandler

putOrderOnHold(o) ==
    /\ WriteStatus(o, "ON_HOLD")
    /\ UNCHANGED << stock, ledger, shipments, req, cancelling, adj, nStockOps >>
    /\ OtherHandler

resumeOrder(o) ==
    /\ WriteStatus(o, "PENDING")
    /\ UNCHANGED << stock, ledger, shipments, req, cancelling, adj, nStockOps >>
    /\ OtherHandler

\* cancelOrder: findUnique and the SHIPPED check; a shipped order is refused
\* with 'Cannot cancel a shipped order'
cancelOrderRead(o) ==
    /\ o \notin cancelling
    /\ IF status[o] = "SHIPPED"
       THEN /\ reply' = "CannotCancelShipped"
            /\ UNCHANGED cancelling
       ELSE /\ reply' = NoReply
            /\ cancelling' = cancelling \cup {o}
    /\ UNCHANGED << status, stock, ledger, shipments, req, adj, nStockOps,
                    wasTerminal >>
    /\ hook' = NoHook
    /\ UNCHANGED extVars

\* cancelOrder: the update that follows the check, and { success: true }
cancelOrderWrite(o) ==
    /\ o \in cancelling
    /\ cancelling' = cancelling \ {o}
    /\ WriteStatus(o, "CANCELLED")
    /\ reply' = "CancelSuccess"
    /\ hook' = NoHook
    /\ UNCHANGED << stock, ledger, shipments, req, adj, nStockOps >>
    /\ UNCHANGED extVars

\* ------------------------------------------------------- order ingestion
\* crypto.timingSafeEqual: it throws a RangeError when the two buffers differ
\* in length, and compares them otherwise
timingSafeEqual(a, b) ==
    IF Len(a) # Len(b) THEN "RangeError"
    ELSE IF a = b THEN "true" ELSE "false"

\* verifyWebhookSignature comparing lengths only
verifyWebhookSignature_LengthOnly(signature) ==
    IF Len(signature) = Len(Digest) THEN "true" ELSE "false"

\* verifyWebhookSignature: the header against the base64 HMAC-SHA256 digest
\* of the raw body under the secret
verifyWebhookSignature(signature) == timingSafeEqual(signature, Digest)

\* The answer of the webhook POST to a request with the given signature
\* header: 401 without header or secret and on a signature that verifies as
\* false, 200 on one that verifies; an exception is caught by the handler's
\* catch, which answers 200 with the error message.
WebhookAnswer(header, secretSet) ==
    IF ~header.present \/ header.value = << >> \/ ~secretSet THEN "401"
    ELSE CASE verifyWebhookSignature(header.value) = "false" -> "401"
           [] verifyWebhookSignature(header.value) = "true" -> "200"
           [] OTHER -> "200 error"

\* POST /api/webhooks/shopify/orders for an order that already has a row.
\* Only a request with a verified signature and a handled topic reaches
\* processOrderWebhook, which overwrites the status with the mapped one.
WebhookPOST(o, header, secretSet, topicHandled, newStatus) ==
    /\ IF WebhookAnswer(header, secretSet) = "200" /\ topicHandled
       THEN WriteStatus(o, newStatus)
       ELSE UNCHANGED << status, wasTerminal >>
    /\ reply' = WebhookAnswer(header, secretSet)
    /\ hook' = [asked |-> TRUE, header |-> header, secretSet |-> secretSet]
    /\ UNCHANGED << stock, ledger, shipments, req, cancelling, adj, nStockOps >>
    /\ UNCHANGED extVars

\* POST /api/shopify/sync-orders, one iteration of its loop over the fetched
\* orders, for an order that already has a row
SyncOrder(o, newStatus) ==
    /\ WriteStatus(o, newStatus)
    /\ UNCHANGED << stock, ledger, shipments, req, cancelling, adj, nStockOps >>
    /\ OtherHandler

\* Ingestion of an order that has no row yet.  processOrderWebhook and the
\* loop body of the order sync run the same statements, one await after the
\* other and outside any transaction; kind tells which of the two runs.

\* prisma.order.findUnique({ where: { shopifyOrderId } })
IngestFindOrder(d, kind) ==
    /\ ing[d].pc = "idle"
    /\ ing' = [ing EXCEPT ![d] = [@ EXCEPT !.kind = kind, !.pc = "order",
                                           !.existing = extOrder > 0]]
    /\ UNCHANGED << extOrder, extItems, check, rate, token >>
    /\ reply' = NoReply /\ hook' = NoHook
    /\ UNCHANGED coreVars

\* existingOrder ? prisma.order.update : prisma.order.create.  The unique
\* index on shopifyOrderId makes the create throw when a row is there by now;
\* the webhook's catch and the per-order catch of the sync end the delivery.
IngestWriteOrder(d) ==
    /\ ing[d].pc = "order"
    /\ IF ing[d].existing
       THEN /\ ing' = [ing EXCEPT ![d].pc = "item", ![d].i = 1]
            /\ UNCHANGED extOrder
       ELSE IF extOrder > 0
       THEN /\ ing' = [ing EXCEPT ![d].pc = "failed"]
            /\ UNCHANGED extOrder
       ELSE /\ ing' = [ing EXCEPT ![d].pc = "item", ![d].i = 1]
            /\ extOrder' = extOrder + 1
    /\ UNCHANGED << extItems, check, rate, token >>
    /\ reply' = NoReply /\ hook' = NoHook
    /\ UNCHANGED coreVars

\* the line item loop has more to do / has ended
IngestNextItem(d, rec) ==
    IF rec.i < MaxLineItems
    THEN [rec EXCEPT !.pc = "item", !.i = rec.i + 1, !.found = FALSE]
    ELSE [rec EXCEPT !.pc = "done", !.found = FALSE]

\* One line item.  The webhook, having created the order itself, creates the
\* item without looking; otherwise both handlers first run
\* prisma.orderItem.findFirst({ where: { shopifyLineItemId } }).
IngestFindItem(d) ==
    /\ ing[d].pc = "item"
    /\ IF ing[d].kind = "webhook" /\ ~ing[d].existing
       THEN /\ extItems' = [extItems EXCEPT ![ing[d].i] = @ + 1]
            /\ ing' = [ing EXCEPT ![d] = IngestNextItem(d, @)]
       ELSE /\ ing' = [ing EXCEPT ![d].pc = "upsert",
                                  ![d].found = extItems[ing[d].i] > 0]
            /\ UNCHANGED extItems
    /\ UNCHANGED << extOrder, check, rate, token >>
    /\ reply' = NoReply /\ hook' = NoHook
    /\ UNCHANGED coreVars

\* The statement after findFirst: update of the row found, or a create
\* (the webhook's upsert on the id found, or '' which matches no row; the
\* sync's if / else)
IngestUpsertItem(d) ==
    /\ ing[d].pc = "upsert"
    /\ extItems' = IF ing[d].found THEN extItems
                   ELSE [extItems EXCEPT ![ing[d].i] = @ + 1]
    /\ ing' = [ing EXCEPT ![d] = IngestNextItem(d, @)]
    /\ UNCHANGED << extOrder, check, rate, token >>
    /\ reply' = NoReply /\ hook' = NoHook
    /\ UNCHANGED coreVars

\* ------------------------------------------------------------------ rates
\* the offers of a carrier as entries of allRates
TagOffers(carrier, rates) ==
    [i \in DOMAIN rates |-> [carrier |-> carrier, price |-> rates[i]]]

\* allRates.sort((a, b) => a.price - b.price), which is stable: the entry is
\* placed behind the entries that are not dearer
RECURSIVE InsertByPrice(_, _)
InsertByPrice(sorted, e) ==
    IF sorted = << >> THEN << e >>
    ELSE IF Head(sorted).price <= e.price
    THEN << Head(sorted) >> \o InsertByPrice(Tail(sorted), e)
    ELSE << e >> \o sorted

RECURSIVE SortByPrice(_)
SortByPrice(s) ==
    IF s = << >> THEN << >>
    ELSE InsertByPrice(SortByPrice(SubSeq(s, 1, Len(s) - 1)), s[Len(s)])

\* generateMockRates returning an empty table
MockRates_None == << >>

\* generateMockRates at weight multiplier 1, in cents, sorted by price
MockRates ==
    SortByPrice(<< [carrier |-> "UPS", price |-> 899],
                   [carrier |-> "UPS", price |-> 2499],
                   [carrier |-> "FedEx", price |-> 949],
                   [carrier |-> "FedEx", price |-> 2299] >>)

\* what the route pushes to allRates and to errors for one carrier
RatesFrom(carrier, res) ==
    IF res.settled = "fulfilled" THEN TagOffers(carrier, res.rates) ELSE << >>

\* RateErrorsFrom with the push for a rejected call forgotten
RateErrorsFrom_NoReason(carrier, res) ==
    IF res.settled = "fulfilled" /\ res.error THEN << carrier >> ELSE << >>

RateErrorsFrom(carrier, res) ==
    IF res.settled = "fulfilled"
    THEN IF res.error THEN << carrier >> ELSE << >>
    ELSE << carrier >>

\* the test of the mock branch with "and" taken for "or"
NoneConfigured_NotBoth(configured) ==
    ~configured["UPS"] \/ ~configured["FedEx"]

\* !ups.isConfigured() && !fedex.isConfigured()
NoneConfigured(configured) ==
    ~configured["UPS"] /\ ~configured["FedEx"]

\* POST of the rates route: the order, Promise.allSettled over the two
\* carriers, the merge, the mock rates or the failure when there is no rate,
\* and the sort
RatesPOST ==
    /\ rate.pc = "asked"
    /\ rate.pending = {}
    /\ LET allRates == RatesFrom("UPS", rate.result["UPS"])
                          \o RatesFrom("FedEx", rate.result["FedEx"])
           errors == RateErrorsFrom("UPS", rate.result["UPS"])
                        \o RateErrorsFrom("FedEx", rate.result["FedEx"])
           resp ==
             IF ~rate.orderFound
             THEN [status |-> "NotFound", rates |-> << >>, errors |-> << >>,
                   mock |-> FALSE]
             ELSE IF allRates = << >>
             THEN IF NoneConfigured(rate.configured)
                  THEN [status |-> "success", rates |-> MockRates,
                        errors |-> << "No carriers configured" >>, mock |-> TRUE]
                  ELSE [status |-> "Unable to get shipping rates", rates |-> << >>,
                        errors |-> errors, mock |-> FALSE]
             ELSE [status |-> "success", rates |-> SortByPrice(allRates),
                   errors |-> errors, mock |-> FALSE]
       IN rate' = [rate EXCEPT !.pc = "done", !.resp = resp]
    /\ reply' = NoReply /\ hook' = NoHook
    /\ UNCHANGED << check, extOrder, extItems, ing, token >>
    /\ UNCHANGED coreVars

\* ------------------------------------------------- external calls in flight
\* The fetch of a carrier's getRates, awaited by Promise.allSettled, gets its
\* answer or fails: the promise settles with a result of the carrier.  The
\* fetch carries no signal and no timer, so nothing else settles it.
CarrierSettles(c, res) ==
    /\ rate.pc = "asked"
    /\ c \in rate.pending
    /\ rate' = [rate EXCEPT !.pending = @ \ {c}, !.result[c] = res]
    /\ reply' = NoReply /\ hook' = NoHook
    /\ UNCHANGED << check, extOrder, extItems, ing, token >>
    /\ UNCHANGED coreVars

\* POST /api/shipping/purchase, configured carrier: createShipment is called
\* and awaited
PurchaseLabelSend(r, carrier) ==
    /\ req[r].pc = "checked"
    /\ carrier \in Carriers
    /\ req' = [req EXCEPT ![r].pc = "awaitLabel"]
    /\ UNCHANGED << status, stock, ledger, shipments, cancelling, adj,
                    nStockOps, wasTerminal >>
    /\ OtherHandler

\* the carrier answers createShipment, or its fetch fails
PurchaseLabelSettles(r, carrierOk) ==
    /\ req[r].pc = "awaitLabel"
    /\ req' = [req EXCEPT ![r] =
                 IF carrierOk
                 THEN [@ EXCEPT !.pc = "purchased", !.trackingNumber = "LIVE"]
                 ELSE [@ EXCEPT !.pc = "done", !.resp = "CarrierError"]]
    /\ UNCHANGED << status, stock, ledger, shipments, cancelling, adj,
                    nStockOps, wasTerminal >>
    /\ OtherHandler

\* POST /api/shipping/purchase after the commit: createFulfillment is called
\* and awaited
PurchaseNotifySend(r) ==
    /\ req[r].pc = "committed"
    /\ req' = [req EXCEPT ![r].pc = "awaitNotify"]
    /\ UNCHANGED << status, stock, ledger, shipments, cancelling, adj,
                    nStockOps, wasTerminal >>
    /\ OtherHandler

\* the upstream platform answers createFulfillment, or its fetch fails; the
\* inner catch swallows a failure and the handler answers success
PurchaseNotifySettles(r, notifyOk) ==
    /\ req[r].pc = "awaitNotify"
    /\ req' = [req EXCEPT ![r].pc = "done", ![r].resp = "Success",
                          ![r].shopifyFulfillment = IF notifyOk THEN "created" ELSE "null"]
    /\ UNCHANGED << status, stock, ledger, shipments, cancelling, adj,
                    nStockOps, wasTerminal >>
    /\ OtherHandler

\* ------------------------------------------------------------ token cache
\* what a step of the token cache leaves alone
TokenOnly ==
    /\ reply' = NoReply /\ hook' = NoHook
    /\ UNCHANGED << check, extOrder, extItems, ing, rate >>
    /\ UNCHANGED coreVars

\* getAccessToken of a configured carrier: a cached token that has not
\* expired is returned; otherwise fetchAccessToken is called, which sends
\* the POST to the carrier's OAuth endpoint and awaits it
getAccessToken(k, c) ==
    /\ token.caller[k].pc = "idle"
    /\ token' = [token EXCEPT !.caller[k] =
                    [pc |-> IF token.cachedToken[c] = "valid"
                            THEN "cached" ELSE "fetching",
                     carrier |-> c]]
    /\ TokenOnly

\* fetchAccessToken after its fetch: a response that is not ok throws, an ok
\* one is written to cachedToken with its expiry and returned
fetchAccessToken(k, ok) ==
    /\ token.caller[k].pc = "fetching"
    /\ token' = IF ok
                THEN [token EXCEPT !.caller[k].pc = "fetched",
                                   !.cachedToken[token.caller[k].carrier] = "valid"]
                ELSE [token EXCEPT !.caller[k].pc = "failed"]
    /\ TokenOnly

\* Date.now() reaches cachedToken.expiresAt
TokenExpires(c) ==
    /\ token.cachedToken[c] = "valid"
    /\ token' = [token EXCEPT !.cachedToken[c] = "expired"]
    /\ TokenOnly

\* ------------------------------------------------------------ stock forms
\* receiveStock: ledger entry and increment in one transaction; a quantity
\* that is not a positive integer is refused by the form validation
receiveStock(p, quantity) ==
    /\ nStockOps < MaxStockOps
    /\ IF quantity <= 0
       THEN UNCHANGED << ledger, stock, nStockOps >>
       ELSE /\ nStockOps' = nStockOps + 1
            /\ ledger' = Append(ledger, [productId |-> p, quantity |-> quantity,
                                         type |-> "RECEIVED", order |-> NoOrder])
            /\ stock' = [stock EXCEPT ![p] = @ + quantity]
    /\ UNCHANGED << status, shipments, req, cancelling, adj, wasTerminal >>
    /\ OtherHandler

\* adjustStock: validation and, inside the transaction, the findUnique that
\* reads the current stock
adjustStockRead(p, newStock) ==
    /\ nStockOps < MaxStockOps
    /\ adj = NoAdj
    /\ IF newStock < 0
       THEN UNCHANGED << adj, nStockOps >>
       ELSE /\ nStockOps' = nStockOps + 1
            /\ adj' = [productId |-> p, newStock |-> newStock,
                       currentStock |-> stock[p]]
    /\ UNCHANGED << status, stock, ledger, shipments, req, cancelling,
                    wasTerminal >>
    /\ OtherHandler

\* adjustStockWrite with an update of the newest ledger row in place of the
\* create
adjustStockWrite_Overwrites ==
    /\ adj # NoAdj
    /\ LET adjustment == adj.newStock - adj.currentStock IN
       IF adjustment # 0
       THEN /\ ledger' = [ledger EXCEPT ![Len(ledger)] =
                             [productId |-> adj.productId, quantity |-> adjustment,
                              type |-> "ADJUSTED", order |-> NoOrder]]
            /\ stock' = [stock EXCEPT ![adj.productId] = adj.newStock]
       ELSE UNCHANGED << ledger, stock >>
    /\ adj' = NoAdj
    /\ UNCHANGED << status, shipments, req, cancelling, nStockOps,
                    wasTerminal >>
    /\ OtherHandler

\* adjustStock: the rest of the transaction; the adjustment is computed from
\* the stock read earlier and the new stock is written as an absolute value
adjustStockWrite ==
    /\ adj # NoAdj
    /\ LET adjustment == adj.newStock - adj.currentStock IN
       IF adjustment # 0
       THEN /\ ledger' = Append(ledger, [productId |-> adj.productId,
                                         quantity |-> adjustment,
                                         type |-> "ADJUSTED", order |-> NoOrder])
            /\ stock' = [stock EXCEPT ![adj.productId] = adj.newStock]
       ELSE UNCHANGED << ledger, stock >>
    /\ adj' = NoAdj
    /\ UNCHANGED << status, shipments, req, cancelling, nStockOps,
                    wasTerminal >>
    /\ OtherHandler

\* ---------------------------------------------------------- specifications
FulfillNext ==
    \/ \E r \in Reqs, oid \in Orders \cup {NoOrder} : PurchaseRead(r, oid)
    \/ \E r \in Reqs, c \in Carriers \cup {OtherCarrier}, cfg \in BOOLEAN, ok \in BOOLEAN :
          PurchaseLabel(r, c, cfg, ok)
    \/ \E r \in Reqs : PurchaseTx(r)
    \/ \E r \in Reqs : PurchaseTxFail(r)
    \/ \E r \in Reqs, ok \in BOOLEAN : PurchaseNotify(r, ok)
    \/ \E r \in Reqs, oid \in Orders \cup {NoOrder} : FulfillOrderRead(r, oid)
    \/ \E r \in Reqs : FulfillOrderTx(r)
    \/ \E r \in Reqs : FulfillOrderTxFail(r)

\* the status writers the dashboard and the upstream platform invoke
StatusNext ==
    \/ \E o \in Orders : putOrderOnHold(o)
    \/ \E o \in Orders : resumeOrder(o)
    \/ \E o \in Orders : cancelOrderRead(o)
    \/ \E o \in Orders : cancelOrderWrite(o)
    \/ \E o \in Orders, s \in {WebhookStatus(order) : order \in ShopifyOrders} :
          WebhookPOST(o, SignedHeader, TRUE, TRUE, s)
    \/ \E o \in Orders, s \in {SyncStatus(order) : order \in ShopifyOrders} :
          SyncOrder(o, s)

StockNext ==
    \/ \E p \in Products, q \in 0..MaxQty : receiveStock(p, q)
    \/ \E p \in Products, n \in (0 - 1)..MaxQty : adjustStockRead(p, n)
    \/ adjustStockWrite

\* Webhook deliveries and sync runs of one incoming order
IngestNext ==
    \/ \E d \in Deliveries, kind \in {"webhook", "sync"} : IngestFindOrder(d, kind)
    \/ \E d \in Deliveries : IngestWriteOrder(d)
    \/ \E d \in Deliveries : IngestFindItem(d)
    \/ \E d \in Deliveries : IngestUpsertItem(d)

\* webhook requests from anyone: every header, with and without a
\* configured secret, handled and unhandled topics
WebhookNext ==
    \E o \in Orders, h \in SignatureHeaders, secretSet \in BOOLEAN, topic \in BOOLEAN,
       s \in {WebhookStatus(order) : order \in ShopifyOrders} :
       WebhookPOST(o, h, secretSet, topic, s)

\* updateOrderStatus is exported but no page or component calls it
Next ==
    \/ FulfillNext
    \/ StatusNext
    \/ StockNext
    \/ WebhookNext
    \/ IngestNext
    \/ CheckStock
    \/ RatesPOST
    \/ \E o \in Orders, s \in OrderStatus : updateOrderStatus(o, s)

\* The whole system.  Its reachable states run into the millions at these
\* bounds; the three specifications below each keep the Fulfill invocations
\* and add one group of writers.
Spec == Init /\ [][Next]_vars

\* Fulfill invocations only: no manual status change, no ingestion, no
\* receive or adjust
SpecFulfill == Init /\ [][FulfillNext]_vars

\* Fulfill invocations together with the status writers in use
OrdersNext == FulfillNext \/ StatusNext

SpecOrders == Init /\ [][OrdersNext]_vars

\* Concurrent requests to the carriers, as far as the OAuth token goes
TokenNext ==
    \/ \E k \in Callers, c \in Carriers : getAccessToken(k, c)
    \/ \E k \in Callers, ok \in BOOLEAN : fetchAccessToken(k, ok)
    \/ \E c \in Carriers : TokenExpires(c)

SpecToken == Init /\ [][TokenNext]_vars

\* The four status operations of the dashboard beside the Fulfill handlers
DashboardNext ==
    \/ \E o \in Orders : putOrderOnHold(o)
    \/ \E o \in Orders : resumeOrder(o)
    \/ \E o \in Orders : cancelOrderRead(o)
    \/ \E o \in Orders : cancelOrderWrite(o)
    \/ \E o \in Orders, s \in OrderStatus : updateOrderStatus(o, s)

SpecDashboard == Init /\ [][FulfillNext \/ DashboardNext]_vars

\* Fulfill invocations together with every writer of Product.currentStock
InventoryNext == FulfillNext \/ StockNext

SpecInventory == Init /\ [][InventoryNext]_vars

\* The webhook endpoint under arbitrary requests, with the dashboard's status
\* operations beside it
WebhookSpecNext ==
    \/ WebhookNext
    \/ \E o \in Orders : putOrderOnHold(o)
    \/ \E o \in Orders : resumeOrder(o)
    \/ \E o \in Orders : cancelOrderRead(o)
    \/ \E o \in Orders : cancelOrderWrite(o)

SpecWebhook == Init /\ [][WebhookSpecNext]_vars

SpecIngest == Init /\ [][IngestNext]_vars

\* The stock check on every order and stock within the bounds
InitStockCheck ==
    /\ status = [o \in Orders |-> "PENDING"]
    /\ stock = InitStock
    /\ ledger = InitLedger
    /\ shipments = << >>
    /\ req = [r \in Reqs |-> IdleReq]
    /\ cancelling = {}
    /\ adj = NoAdj
    /\ nStockOps = 0
    /\ wasTerminal = {}
    /\ reply = NoReply
    /\ hook = NoHook
    /\ check \in {[items |-> items, stock |-> stk, pc |-> "asked", details |-> << >>] :
                    items \in ItemLists, stk \in Stocks}
    /\ extOrder = 0
    /\ extItems = [l \in LineItems |-> 0]
    /\ ing = [d \in Deliveries |-> IdleDelivery]
    /\ token = NoToken
    /\ rate = NoRate

SpecStockCheck == InitStockCheck /\ [][CheckStock]_vars

\* The rates route on every combination of configured carriers and carrier
\* results within the bounds
InitRates ==
    /\ status = [o \in Orders |-> "PENDING"]
    /\ stock = InitStock
    /\ ledger = InitLedger
    /\ shipments = << >>
    /\ req = [r \in Reqs |-> IdleReq]
    /\ cancelling = {}
    /\ adj = NoAdj
    /\ nStockOps = 0
    /\ wasTerminal = {}
    /\ reply = NoReply
    /\ hook = NoHook
    /\ check = NoCheck
    /\ extOrder = 0
    /\ extItems = [l \in LineItems |-> 0]
    /\ ing = [d \in Deliveries |-> IdleDelivery]
    /\ token = NoToken
    /\ \E found \in BOOLEAN, cfg \in [Carriers -> BOOLEAN] :
          \E ups \in ResultsOf(cfg["UPS"]), fedex \in ResultsOf(cfg["FedEx"]) :
             rate = [NoRate EXCEPT !.orderFound = found, !.configured = cfg,
                                   !.result = [c \in Carriers |->
                                                  IF c = "UPS" THEN ups ELSE fedex],
                                   !.pc = "asked"]

SpecRates == InitRates /\ [][RatesPOST]_vars

\* The purchase route and the rates route with their external calls as
\* steps of their own.  The rates request has issued getRates to every
\* configured carrier of an existing order.
InitAwait ==
    /\ status = [o \in Orders |-> "PENDING"]
    /\ stock = InitStock
    /\ ledger = InitLedger
    /\ shipments = << >>
    /\ req = [r \in Reqs |-> IdleReq]
    /\ cancelling = {}
    /\ adj = NoAdj
    /\ nStockOps = 0
    /\ wasTerminal = {}
    /\ reply = NoReply
    /\ hook = NoHook
    /\ check = NoCheck
    /\ extOrder = 0
    /\ extItems = [l \in LineItems |-> 0]
    /\ ing = [d \in Deliveries |-> IdleDelivery]
    /\ token = NoToken
    /\ \E found \in BOOLEAN, cfg \in [Carriers -> BOOLEAN] :
          rate = [NoRate EXCEPT
                    !.orderFound = found, !.configured = cfg,
                    !.pending = IF found THEN {c \in Carriers : cfg[c]} ELSE {},
                    !.result = [c \in Carriers |->
                                  IF cfg[c] THEN PendingResult
                                  ELSE NotConfiguredResult],
                    !.pc = "asked"]

\* what the handler of invocation r does by itself, the event loop running
HandlerStep(r) ==
    \/ \E c \in Carriers \cup {OtherCarrier} : PurchaseLabel(r, c, FALSE, FALSE)
    \/ \E c \in Carriers : PurchaseLabelSend(r, c)
    \/ PurchaseTx(r)
    \/ PurchaseTxFail(r)
    \/ PurchaseNotifySend(r)

\* what the carriers and the upstream platform do, if they do
ExternalStep ==
    \/ \E c \in Carriers, res \in CarrierResults : CarrierSettles(c, res)
    \/ \E r \in Reqs, ok \in BOOLEAN : PurchaseLabelSettles(r, ok)
    \/ \E r \in Reqs, ok \in BOOLEAN : PurchaseNotifySettles(r, ok)

AwaitNext ==
    \/ \E r \in Reqs, oid \in Orders \cup {NoOrder} : PurchaseRead(r, oid)
    \/ \E r \in Reqs : HandlerStep(r)
    \/ RatesPOST
    \/ ExternalStep

\* A handler whose awaited promise has settled is resumed by the event loop,
\* and the database answers; nothing obliges a carrier or the upstream
\* platform to answer.
SpecAwait ==
    /\ InitAwait /\ [][AwaitNext]_vars
    /\ WF_vars(RatesPOST)
    /\ \A r \in Reqs : WF_vars(HandlerStep(r))


\* ------------------------------------------------- what the claims speak of
ForOrder(o) == LET Test(row) == row.orderId = o IN SelectSeq(shipments, Test)

NumShipments(o) == Len(ForOrder(o))

\* the SHIPPED ledger entries written for order o
ShippedFor(o) ==
    LET Test(e) == e.type = "SHIPPED" /\ e.order = o IN SelectSeq(ledger, Test)

\* the ledger entries of product p, and the SHIPPED ones among them
LedgerOf(p) == LET Test(e) == e.productId = p IN SelectSeq(ledger, Test)

ShippedOf(p) ==
    LET Test(e) == e.productId = p /\ e.type = "SHIPPED" IN SelectSeq(ledger, Test)

\* units of product p that order o asks for, over all its line items
Need(o, p) ==
    LET Test(item) == item.productId = p IN SumQty(SelectSeq(OrderItems(o), Test))

\* units of product p that the recorded shipments account for
RECURSIVE ShippedUnits(_, _)
ShippedUnits(rows, p) ==
    IF rows = << >> THEN 0
    ELSE Need(Head(rows).orderId, p) + ShippedUnits(Tail(rows), p)

\* invocation r has committed its fulfillment transaction
Committed(r) == req[r].pc = "committed" \/ req[r].resp = "Success"

\* invocation r has returned
Returned(r) == req[r].pc = "done"

\* C1: two concurrent Fulfill invocations of the same order, of which one
\* succeeds, leave exactly one Shipment row for the order and one SHIPPED
\* ledger entry (one decrement) per linked item, and the other one fails.
C1_ConcurrentFulfillOnce ==
    \A r1 \in Reqs, r2 \in Reqs :
        ( /\ r1 # r2
          /\ req[r1].orderId \in Orders
          /\ req[r1].orderId = req[r2].orderId
          /\ Returned(r1) /\ Returned(r2)
          /\ Committed(r1) \/ Committed(r2) )
        => LET o == req[r1].orderId IN
           /\ NumShipments(o) = 1
           /\ Len(ShippedFor(o)) = Len(LinkedItems(o))
           /\ stock = DecrementStock(InitStock, OrderItems(o))
           /\ ~(Committed(r1) /\ Committed(r2))

\* C2: fulfillment writes are atomic.  In every state the SHIPPED ledger
\* entries of an order are exactly those of its Shipment rows (one per linked
\* item and Shipment), and the stock taken from each product is exactly what
\* the Shipment rows account for: no Shipment without its decrements, no
\* decrement without its Shipment.
C2_ShipmentIffDecrement ==
    /\ \A o \in Orders : Len(ShippedFor(o)) = NumShipments(o) * Len(LinkedItems(o))
    /\ \A o \in Orders : (NumShipments(o) = 0) <=> (ShippedFor(o) = << >>)
    /\ \A p \in Products : InitStock[p] - stock[p] = ShippedUnits(shipments, p)

\* a transaction has committed, another has failed and rolled back
C2_Witness ==
    /\ shipments # << >>
    /\ \E r \in Reqs : req[r].resp \in {"Error500", "Thrown"}

\* C3: currentStock of every product is never negative.
C3_StockNonNegative == \A p \in Products : stock[p] >= 0

\* C4: when two fulfillments of different orders need the same product and
\* its stock covers either of them but not both, at most one of the two
\* transactions commits.
C4_OnlyOneCommits ==
    \A r1 \in Reqs, r2 \in Reqs :
        LET o1 == req[r1].orderId
            o2 == req[r2].orderId
        IN  ( /\ r1 # r2
              /\ o1 \in Orders /\ o2 \in Orders /\ o1 # o2
              /\ \E p \in Products :
                    /\ Need(o1, p) > 0 /\ Need(o2, p) > 0
                    /\ Need(o1, p) <= InitStock[p] /\ Need(o2, p) <= InitStock[p]
                    /\ Need(o1, p) + Need(o2, p) > InitStock[p] )
            => ~(Committed(r1) /\ Committed(r2))

\* C5: reconciliation.  The currentStock of every product equals the sum of
\* the signed quantities of its ledger entries.
C5_StockEqualsLedger == \A p \in Products : stock[p] = SumQty(LedgerOf(p))

\* C6: after any sequence of successful and failed Fulfill invocations the
\* currentStock of every product is its initial stock minus the quantities
\* shipped according to its SHIPPED ledger entries (which are negative).
C6_StockIsInitialMinusShipped ==
    \A p \in Products : stock[p] = InitStock[p] + SumQty(ShippedOf(p))

\* one invocation has succeeded, one has been refused, stock has gone down
C6_Witness ==
    /\ \E r \in Reqs : req[r].resp = "Success"
    /\ \E r \in Reqs : req[r].resp \in {"StockIssues", "AlreadyShipped", "CarrierError"}
    /\ \E p \in Products : stock[p] < InitStock[p]

\* C7: SHIPPED is irreversible: no step changes the status of an order that
\* is SHIPPED.
C7_ShippedIsFinal ==
    [][\A o \in Orders : status[o] = "SHIPPED" => status'[o] = "SHIPPED"]_vars

\* C8: every order whose status is SHIPPED owns at least one Shipment row.
C8_ShippedHasShipment ==
    \A o \in Orders : status[o] = "SHIPPED" => NumShipments(o) >= 1

\* C9: once an order has been SHIPPED or CANCELLED, no step creates a further
\* Shipment row for it.
C9_TerminalNoMoreShipments ==
    [][\A o \in Orders :
          o \in wasTerminal =>
             LET Test(row) == row.orderId = o
             IN Len(SelectSeq(shipments', Test)) = NumShipments(o)]_vars

\* C10: a Fulfill invocation that reads an order whose status is not PENDING
\* or PROCESSING is rejected: it returns an error at once.
C10_OnlyPendingOrProcessing ==
    [][\A r \in Reqs :
          ( /\ req[r].pc = "idle"
            /\ req'[r].pc # "idle"
            /\ req'[r].orderId \in Orders
            /\ status[req'[r].orderId] \notin {"PENDING", "PROCESSING"} )
          => /\ req'[r].pc = "done"
             /\ req'[r].resp \in {"AlreadyShipped", "Cancelled", "InvalidState",
                                  "StockIssues"}]_vars

\* a step leaves the Order, Product, InventoryTransaction and Shipment tables
\* as they are
DbUnchanged == UNCHANGED << status, stock, ledger, shipments >>

\* the responses of a Fulfill invocation that failed a precondition
PreconditionErrors == {"NotFound", "AlreadyShipped", "Cancelled", "StockIssues"}

\* invocation r has called a carrier's createShipment
CarrierCalled(r) ==
    req[r].trackingNumber = "LIVE" \/ req[r].resp = "CarrierError"

\* the order has an item without product or an item its product's stock does
\* not cover
HasStockIssue(o) ==
    \E i \in DOMAIN OrderItems(o) :
        \/ OrderItems(o)[i].productId = NoProduct
        \/ stock[OrderItems(o)[i].productId] < OrderItems(o)[i].quantity

\* C11: fail fast.  A Fulfill invocation that reads an order which does not
\* exist, is SHIPPED or CANCELLED, or has a stock issue returns its error in
\* that very step; and the step in which an invocation returns a precondition
\* error changes no table and has called no carrier.
C11_FailFast ==
    [][\A r \in Reqs :
          /\ ( /\ req[r].pc = "idle" /\ req'[r].pc # "idle"
               /\ LET o == req'[r].orderId IN
                  \/ o \notin Orders
                  \/ status[o] \in {"SHIPPED", "CANCELLED"}
                  \/ HasStockIssue(o) )
             => req'[r].pc = "done" /\ req'[r].resp \in PreconditionErrors
          /\ ( req[r].pc # "done" /\ req'[r].resp \in PreconditionErrors )
             => /\ DbUnchanged
                /\ req[r].pc = "idle"
                /\ req'[r].trackingNumber = "none"
                /\ ~CarrierCalled(r)']_vars

\* a fulfillment has committed and a later invocation has been refused for
\* the stock, another for the status
C11_Witness ==
    /\ shipments # << >>
    /\ \E r \in Reqs : req[r].resp = "AlreadyShipped" \/ req[r].resp = "StockIssues"
    /\ \E r \in Reqs : req[r].resp = "Success"

\* C13: when createShipment of the chosen carrier fails, the invocation
\* returns the error in that step, the step changes no table, and the
\* invocation never takes another step.
C13_CarrierFailureNoMutation ==
    [][\A r \in Reqs :
          /\ ( req[r].resp # "CarrierError" /\ req'[r].resp = "CarrierError" )
             => DbUnchanged /\ req[r].pc = "checked" /\ req'[r].pc = "done"
          /\ req[r].resp = "CarrierError" => req'[r] = req[r]]_vars

\* one invocation got a carrier error while another committed
C13_Witness ==
    /\ \E r \in Reqs : req[r].resp = "CarrierError"
    /\ \E r \in Reqs : req[r].resp = "Success"

\* C14: when the fulfillment transaction fails after the label was obtained,
\* the step changes no table (no Shipment row, decrement, ledger entry or
\* status change is visible) and the invocation ends with an error, never
\* with success.
C14_TxFailureRollsBack ==
    [][\A r \in Reqs :
          ( /\ req[r].pc \in {"purchased", "ready"}
            /\ req'[r].pc = "done" /\ req'[r].resp # "Success" )
          => /\ DbUnchanged
             /\ req'[r].resp \in {"Error500", "Thrown"}]_vars

\* the transaction of the purchase route failed for one invocation and the
\* one of fulfillOrder for another
C14_Witness ==
    /\ \E r \in Reqs : req[r].resp = "Error500" /\ req[r].trackingNumber # "none"
    /\ \E r \in Reqs : req[r].resp = "Thrown"

\* C15: when createFulfillment fails after the transaction committed, the
\* step changes no table and the invocation returns success; an invocation
\* that committed in the purchase route never returns anything else.
C15_NotifyBestEffort ==
    [][\A r \in Reqs :
          req[r].pc = "committed" /\ req'[r] # req[r]
          => /\ DbUnchanged
             /\ req'[r].pc = "done" /\ req'[r].resp = "Success"
             /\ req'[r].shopifyFulfillment \in {"created", "null"}]_vars

\* an invocation returned success although the notification failed, and its
\* Shipment row is there
C15_Witness ==
    \E r \in Reqs :
        /\ req[r].resp = "Success" /\ req[r].shopifyFulfillment = "null"
        /\ req[r].trackingNumber \in {"LIVE", "MOCK"}
        /\ NumShipments(req[r].orderId) >= 1

\* C16: the step in which a Fulfill invocation commits adds exactly one
\* Shipment row for the order, lowers the stock of every product by the
\* quantities of the order's items of that product, appends one SHIPPED
\* ledger entry of minus the item quantity per linked item, and leaves the
\* order SHIPPED.  (Stock 5 and quantity 3 give stock 2.)
C16_SuccessfulFulfill ==
    /\ DecrementStock([p \in {"p1"} |-> 5],
                      << [productId |-> "p1", quantity |-> 3] >>)["p1"] = 2
    /\ [][\A r \in Reqs :
            ( /\ req[r].pc \in {"purchased", "ready"}
              /\ req'[r].pc = "committed" \/ req'[r].resp = "Success" )
            => LET o == req[r].orderId
                   items == SelectSeq(OrderItems(o), IsLinked)
                   n == Len(ledger)
               IN  /\ Len(shipments') = Len(shipments) + 1
                   /\ SubSeq(shipments', 1, Len(shipments)) = shipments
                   /\ shipments'[Len(shipments')].orderId = o
                   /\ \A p \in Products : stock'[p] = stock[p] - Need(o, p)
                   /\ Len(ledger') = n + Len(items)
                   /\ SubSeq(ledger', 1, n) = ledger
                   /\ \A i \in 1..Len(items) :
                         /\ ledger'[n + i].productId = items[i].productId
                         /\ ledger'[n + i].quantity = 0 - items[i].quantity
                         /\ ledger'[n + i].type = "SHIPPED"
                   /\ status'[o] = "SHIPPED"
                   /\ \A o2 \in Orders \ {o} : status'[o2] = status[o2]]_vars

\* both orders have been fulfilled, one through each handler
C16_Witness ==
    /\ \A o \in Orders : status[o] = "SHIPPED" /\ NumShipments(o) = 1
    /\ \E r \in Reqs : req[r].trackingNumber = "INPUT" /\ req[r].resp = "Success"
    /\ \E r \in Reqs : req[r].trackingNumber # "INPUT" /\ req[r].resp = "Success"

\* C17: cancelOrder on an order whose status is SHIPPED fails and leaves the
\* status as it is; on an order whose status is PENDING, PROCESSING or ON_HOLD
\* it succeeds and the status becomes CANCELLED.  The status is the one the
\* order has when cancelOrder acts.
C17_CancelOrder ==
    [][/\ reply' = "CannotCancelShipped"
          => /\ status' = status
             /\ \E o \in Orders : status[o] = "SHIPPED"
       /\ \A o \in Orders :
            /\ (o \notin cancelling /\ o \in cancelling')
               => status[o] # "SHIPPED" /\ status' = status
            /\ (o \in cancelling /\ o \notin cancelling')
               => /\ status[o] = "SHIPPED"
                     => reply' = "CannotCancelShipped" /\ status'[o] = "SHIPPED"
                  /\ status[o] \in {"PENDING", "PROCESSING", "ON_HOLD"}
                     => reply' = "CancelSuccess" /\ status'[o] = "CANCELLED"]_vars

\* the header is missing or is not the digest of the body under the secret
BadSignature(header) == ~header.present \/ header.value # Digest

\* C19: every webhook request whose signature header is missing or differs
\* from the HMAC digest of the raw body, in content or in length, is answered
\* with 401.
C19_BadSignatureUnauthorized ==
    [][hook'.asked /\ BadSignature(hook'.header) => reply' = "401"]_vars

\* the items a stock check has to report: those without a product and those
\* asking for more than their product has in stock
Offending(items, stk) ==
    { i \in DOMAIN items :
        \/ items[i].productId = NoProduct
        \/ items[i].productId # NoProduct /\ stk[items[i].productId] < items[i].quantity }

\* C12: a stock check refuses exactly when some item is offending, and the
\* details of its one error name exactly the offending items, each once:
\* every item without product and every item whose quantity exceeds the
\* stock, not only the first.
C12_AllIssuesListed ==
    check.pc \in {"passed", "refused"} =>
        /\ (check.pc = "refused") <=> (Offending(check.items, check.stock) # {})
        /\ {check.details[k].item : k \in DOMAIN check.details}
              = Offending(check.items, check.stock)
        /\ Len(check.details) = Cardinality(Offending(check.items, check.stock))
        /\ \A k \in DOMAIN check.details :
              /\ check.details[k].need = check.items[check.details[k].item].quantity
              /\ check.details[k].issue = "Need"
                 => check.details[k].have
                       = check.stock[check.items[check.details[k].item].productId]

\* a refusal that names two items: the first short of stock, the second
\* without product
C12_Witness ==
    /\ check.pc = "refused"
    /\ Len(check.details) = 2
    /\ check.details[1].issue = "Need"
    /\ check.details[2].issue = "Product not in system"

\* every delivery that has started has run to its end
IngestQuiet ==
    /\ \E d \in Deliveries : ing[d].pc # "idle"
    /\ \A d \in Deliveries : ing[d].pc \in {"idle", "done", "failed"}

\* C18: ingestion is idempotent on the external ids.  There is never more
\* than one Order row for the external order id nor more than one OrderItem
\* row for an external line item id, and once the deliveries that carry the
\* order have run there is exactly one of each.
C18_IngestIdempotent ==
    /\ extOrder <= 1
    /\ \A l \in LineItems : extItems[l] <= 1
    /\ IngestQuiet => extOrder = 1 /\ \A l \in LineItems : extItems[l] = 1

\* a configured carrier whose call was rejected or returned an error
FailingCarrier(c) ==
    /\ rate.configured[c]
    /\ rate.result[c].settled = "rejected" \/ rate.result[c].error

\* a configured carrier whose call returned its offers and no error
SucceedingCarrier(c) ==
    /\ rate.configured[c]
    /\ rate.result[c].settled = "fulfilled" /\ ~rate.result[c].error

\* the response is a success that holds exactly the offers of carrier y, in
\* ascending order of price, and one advisory error, for carrier x
OffersOfOneErrorForOther(y, x) ==
    /\ rate.resp.status = "success"
    /\ ~rate.resp.mock
    /\ rate.resp.rates = [i \in DOMAIN rate.result[y].rates |->
                             [carrier |-> y, price |-> rate.result[y].rates[i]]]
    /\ \A i \in DOMAIN rate.resp.rates, j \in DOMAIN rate.resp.rates :
          i < j => rate.resp.rates[i].price <= rate.resp.rates[j].price
    /\ rate.resp.errors = << x >>

\* C20 as stated: with one configured carrier failing and the other
\* configured carrier succeeding, the rates route answers success with the
\* succeeding carrier's offers sorted ascending by price and one advisory
\* error for the failing carrier, not a hard error.
C20_PartialFailure ==
    \A x \in Carriers, y \in Carriers :
        ( /\ rate.pc = "done" /\ rate.orderFound
          /\ x # y /\ FailingCarrier(x) /\ SucceedingCarrier(y) )
        => OffersOfOneErrorForOther(y, x)

\* C20 amended: the same, when the succeeding carrier returns at least one
\* offer.
C20_PartialFailureWithOffers ==
    \A x \in Carriers, y \in Carriers :
        ( /\ rate.pc = "done" /\ rate.orderFound
          /\ x # y /\ FailingCarrier(x) /\ SucceedingCarrier(y)
          /\ Len(rate.result[y].rates) >= 1 )
        => OffersOfOneErrorForOther(y, x)

\* UPS was rejected, FedEx returned two offers of different price, and the
\* response is a success
C20_Witness ==
    /\ rate.pc = "done" /\ rate.orderFound
    /\ FailingCarrier("UPS") /\ rate.result["UPS"].settled = "rejected"
    /\ SucceedingCarrier("FedEx")
    /\ Len(rate.result["FedEx"].rates) = 2
    /\ rate.result["FedEx"].rates[1] < rate.result["FedEx"].rates[2]
    /\ rate.resp.status = "success"

\* C21: with no carrier configured, the rates route answers an existing
\* order with a success that carries a non-empty table of placeholder
\* offers and the mock flag, never the failure.
C21_MockWhenNoneConfigured ==
    ( /\ rate.pc = "done" /\ rate.orderFound
      /\ \A c \in Carriers : ~rate.configured[c] )
    => /\ rate.resp.status = "success"
       /\ rate.resp.mock
       /\ Len(rate.resp.rates) >= 1

\* neither carrier is configured and the answer is the mock table of four
\* offers, cheapest first
C21_Witness ==
    /\ rate.pc = "done" /\ rate.orderFound
    /\ \A c \in Carriers : ~rate.configured[c]
    /\ rate.resp.mock
    /\ Len(rate.resp.rates) = 4
    /\ rate.resp.rates[1].price = 899

\* no offer of any carrier reached the merged list
MergedEmpty ==
    \A c \in Carriers :
        rate.result[c].settled = "rejected" \/ rate.result[c].rates = << >>

\* the carriers that owe an advisory error: rejected, or fulfilled with an
\* error
Advised(c) == rate.result[c].settled = "rejected" \/ rate.result[c].error

\* one advisory error for each carrier that owes one, UPS first
AllAdvisoryErrors ==
    (IF Advised("UPS") THEN << "UPS" >> ELSE << >>)
       \o (IF Advised("FedEx") THEN << "FedEx" >> ELSE << >>)

\* C22: for an existing order, the mock table is answered only when no
\* carrier is configured; the answer is the failure "Unable to get shipping
\* rates", carrying every advisory error, exactly when at least one carrier
\* is configured and the merged list is empty.
C22_HardFailureOnlyWhenEmpty ==
    ( rate.pc = "done" /\ rate.orderFound )
    => /\ rate.resp.mock => \A c \in Carriers : ~rate.configured[c]
       /\ rate.resp.status = "Unable to get shipping rates"
             <=> ( MergedEmpty /\ \E c \in Carriers : rate.configured[c] )
       /\ rate.resp.status = "Unable to get shipping rates"
             => rate.resp.errors = AllAdvisoryErrors /\ ~rate.resp.mock

\* UPS is configured and was rejected, FedEx is not configured, and the
\* answer is the failure with the two advisory errors
C22_Witness ==
    /\ rate.pc = "done" /\ rate.orderFound
    /\ rate.configured["UPS"] /\ ~rate.configured["FedEx"]
    /\ rate.result["UPS"].settled = "rejected"
    /\ rate.resp.status = "Unable to get shipping rates"
    /\ rate.resp.errors = << "UPS", "FedEx" >>

\* C23: every rates request and every purchase request eventually returns,
\* also when a carrier or the upstream platform never answers.
C23_EveryCallReturns ==
    /\ (rate.pc = "asked") ~> (rate.pc = "done")
    /\ \A r \in Reqs : (req[r].pc # "idle") ~> (req[r].pc = "done")

\* C24: the ledger is append-only.  Every step of receiveStock, adjustStock
\* and the two Fulfill handlers leaves every entry that exists in its place
\* with the same product, quantity and kind; it can only add entries behind
\* them.
C24_LedgerAppendOnly ==
    [][ /\ Len(ledger') >= Len(ledger)
        /\ \A i \in DOMAIN ledger :
              /\ ledger'[i].productId = ledger[i].productId
              /\ ledger'[i].quantity = ledger[i].quantity
              /\ ledger'[i].type = ledger[i].type ]_vars

\* stock was received, adjusted and shipped, and the two entries the ledger
\* began with are still its first two
C24_Witness ==
    /\ \E i \in DOMAIN ledger : ledger[i].type = "SHIPPED"
    /\ \E i \in DOMAIN ledger : ledger[i].type = "ADJUSTED"
    /\ \E i \in DOMAIN ledger : i > Len(InitLedger) /\ ledger[i].type = "RECEIVED"
    /\ SubSeq(ledger, 1, Len(InitLedger)) = InitLedger

\* invocation r takes the step that ends its fulfillment transaction
TransactionStep(r) ==
    /\ req[r].pc \in {"purchased", "ready"}
    /\ req'[r].pc # req[r].pc

\* C25: the fulfillment transaction commits only on a status of PENDING or
\* PROCESSING.  When the order left these two between the handler's check and
\* its transaction (cancelOrder, putOrderOnHold or a webhook committed), the
\* transaction step writes nothing and the order does not become SHIPPED.
C25_CommitRechecksStatus ==
    [][\A r \in Reqs :
          ( /\ TransactionStep(r)
            /\ status[req[r].orderId] \notin {"PENDING", "PROCESSING"} )
          => /\ DbUnchanged
             /\ status'[req[r].orderId] # "SHIPPED"]_vars

\* the status changes the order state machine allows a dashboard operation
LegalChange(from, to) ==
    CASE to = "ON_HOLD" -> from # "SHIPPED"
      [] to = "PENDING" -> from = "ON_HOLD"
      [] to = "CANCELLED" -> from \in {"PENDING", "PROCESSING", "ON_HOLD"}
      [] to = "SHIPPED" -> FALSE
      [] OTHER -> TRUE

\* C26: every change of status made by putOrderOnHold, resumeOrder,
\* cancelOrder or updateOrderStatus is a legal transition: to ON_HOLD only
\* from a status other than SHIPPED, to PENDING only from ON_HOLD, to
\* CANCELLED only from PENDING, PROCESSING or ON_HOLD, and never to SHIPPED.
C26_LegalTransitions ==
    [][\A o \in Orders :
          ( /\ status'[o] # status[o]
            /\ \/ putOrderOnHold(o)
               \/ resumeOrder(o)
               \/ cancelOrderWrite(o)
               \/ \E s \in OrderStatus : updateOrderStatus(o, s) )
          => LegalChange(status[o], status'[o])]_vars

\* C27: the steps of one purchase request happen in a fixed order, each at
\* most once.  The label step is taken once, before any carrier was called
\* for the request, and ends before the transaction; the transaction step
\* starts with the label in hand and either commits one Shipment row or
\* changes nothing and ends the request without a notification; the
\* upstream platform is notified only in the step after the commit; a
\* request that has returned takes no further step.
C27_StepsInOrder ==
    [][\A r \in Reqs :
          /\ ( req[r].pc = "checked" /\ req'[r] # req[r] )
                => /\ ~CarrierCalled(r)
                   /\ req[r].trackingNumber = "none"
                   /\ req'[r].pc \in {"purchased", "done"}
                   /\ DbUnchanged
          /\ ( req[r].pc = "purchased" /\ req'[r] # req[r] )
                => /\ req[r].trackingNumber # "none"
                   /\ \/ /\ req'[r].pc = "committed"
                         /\ shipments' = Append(shipments,
                               [orderId |-> req[r].orderId,
                                trackingNumber |-> req[r].trackingNumber])
                      \/ /\ req'[r].pc = "done"
                         /\ req'[r].shopifyFulfillment = "none"
                         /\ DbUnchanged
          /\ ( req'[r].shopifyFulfillment # req[r].shopifyFulfillment )
                => /\ req[r].pc = "committed"
                   /\ NumShipments(req[r].orderId) >= 1
                   /\ req'[r].pc = "done"
          /\ ( req[r].pc = "done" ) => req'[r] = req[r] ]_vars

\* one purchase request bought a label, committed and notified the upstream
\* platform; the other bought a label and its transaction rolled back
C27_Witness ==
    \E r1 \in Reqs, r2 \in Reqs :
        /\ req[r1].pc = "done" /\ req[r1].resp = "Success"
        /\ req[r1].trackingNumber = "LIVE"
        /\ req[r1].shopifyFulfillment = "created"
        /\ NumShipments(req[r1].orderId) >= 1
        /\ req[r2].pc = "done" /\ req[r2].resp = "Error500"
        /\ req[r2].trackingNumber = "LIVE"
        /\ req[r2].shopifyFulfillment = "none"

\* C29: a fulfillment commits only after the chosen carrier's createShipment
\* was called and succeeded.  Every invocation that committed holds a label
\* bought from the carrier, and so does every Shipment row; an invocation
\* whose carrier is not configured records no Shipment and takes no stock.
C29_CommitOnlyAfterLabel ==
    /\ \A r \in Reqs : Committed(r) => req[r].trackingNumber = "LIVE"
    /\ \A i \in DOMAIN shipments : shipments[i].trackingNumber = "LIVE"

\* C30: a webhook request whose signature header is missing or differs from
\* the digest writes nothing, whatever it is answered: the step of such a
\* request leaves every Order and OrderItem row, and every other table, as
\* it is.
C30_BadSignatureWritesNothing ==
    [][hook'.asked /\ BadSignature(hook'.header)
          => DbUnchanged /\ UNCHANGED << extOrder, extItems >>]_vars

\* a request with a signature of another length than the digest has been
\* answered 200 with an error, after an order had left PENDING
C30_Witness ==
    /\ hook.asked /\ hook.secretSet
    /\ hook.header.present /\ Len(hook.header.value) > Len(Digest)
    /\ reply = "200 error"
    /\ \E o \in Orders : status[o] # "PENDING"

\* the callers whose token exchange with carrier c is in flight
InFlight(c) ==
    { k \in Callers : token.caller[k].pc = "fetching" /\ token.caller[k].carrier = c }

\* C28: at most one OAuth token exchange is in flight per carrier: callers
\* that find no valid cached token while one is in flight do not start
\* another.
C28_OneExchangeInFlight ==
    \A c \in Carriers : Cardinality(InFlight(c)) <= 1

====
